---- MODULE Spec2Model ----
(***************************************************************************)
(* Seller lifecycle, OTP verification, notification sending and the gated  *)
(* seller business operations of the e-commerce backend                    *)
(* (routes/seller.js, routes/adminSeller.js, middleware/sellerAuth.js,     *)
(* utils/otpService.js, utils/emailService.js, models/Seller.js).          *)
(*                                                                         *)
(* The document store is modelled as Mongoose drives it: a save persists   *)
(* only paths declared in the schema (strict mode), an array push is sent  *)
(* as an atomic $push, and the other assigned paths are sent as $set.      *)
(***************************************************************************)
EXTENDS Integers, Sequences, FiniteSets, TLC

VARIABLES
    sellers,    \* the sellers collection: sequence of seller documents, _id = index
    products,   \* the products collection: sequence of documents, _id = index
    orders,     \* the orders collection: sequence of documents, _id = index
    reqs,       \* requests to gated routes in flight: slot -> position, req.seller
    now,        \* Date.now(), in milliseconds
    last        \* the most recently completed request: route, response, mail sent

vars == <<sellers, products, orders, reqs, now, last>>

----------------------------------------------------------------------------
(* Bounds of the model *)

MaxSellers == 2         \* seller documents ever inserted
MaxReqs == 2            \* gated requests in flight at once
MaxEarnings == 2        \* cap on totalEarnings credited
MaxWithdrawals == 2     \* cap on the length of a withdrawals array
MaxProducts == 2        \* product documents ever inserted
MaxOrders == 1          \* order documents ever inserted
MaxTicks == 2           \* clock advances
ProviderCalls == 4      \* provider responses drawn for one notification send

(* Program constants *)

MsPerMinute == 60000    \* expiryMinutes * 60 * 1000
TickMs == 5 * MsPerMinute   \* one clock advance: 5 minutes
OtpExpiryMinutes == 10  \* generateOTPWithExpiry(10)
LockAttempts == 5       \* attempts >= 5
MaxRetries == 3         \* retryWithBackoff(fn, 3, 2000)
RetryDelayMs == 2000
DefaultDelayMs == 1000  \* retryWithBackoff default delayMs

Undefined == "undefined"    \* a path that is not set on a document
Null == "null"
NoDate == -1                \* a Date path that is not set

\* The value of seller.emailVerificationOTP when the document has no such path.
NoOTP == [present |-> FALSE, code |-> Undefined, expiresAt |-> NoDate, attempts |-> 0]

----------------------------------------------------------------------------
(* models/Seller.js *)

\* The paths sellerSchema declares.
sellerSchema ==
    {"name", "email", "phone", "password", "aadhaarNumber", "aadhaarDocument",
     "bankDetails", "status", "isApproved", "rejectionReason", "approvedAt",
     "totalEarnings", "totalOrders", "totalProducts", "rating", "reviewCount",
     "withdrawals", "createdAt", "updatedAt"}

\* The paths of a seller document that the model carries.
SellerPaths ==
    {"email", "aadhaarNumber", "password", "bankDetails", "status", "isApproved",
     "rejectionReason", "approvedAt", "totalEarnings", "totalProducts",
     "withdrawals", "isEmailVerified", "emailVerificationOTP"}

\* bcrypt hash of the pre-save hook.
Hash(pw) == <<"bcrypt", pw>>

\* Reading a path that the document does not have.
Unset(p) == IF p = "emailVerificationOTP" THEN NoOTP ELSE Undefined

\* Strict mode: what the store keeps of a document is its schema paths.
Strict(doc) ==
    [p \in SellerPaths |-> IF p \in sellerSchema THEN doc[p] ELSE Unset(p)]

\* new Seller({...}) followed by the first save: schema defaults applied.
NewSeller(email, aadhaar, password, bank) ==
    Strict([email |-> email,
            aadhaarNumber |-> aadhaar,
            password |-> Hash(password),
            bankDetails |-> bank,
            status |-> "pending",
            isApproved |-> FALSE,
            rejectionReason |-> Undefined,
            approvedAt |-> NoDate,
            totalEarnings |-> 0,
            totalProducts |-> 0,
            withdrawals |-> <<>>,
            isEmailVerified |-> "false",
            emailVerificationOTP |-> NoOTP])

SellerIds == 1..MaxSellers
Existing == 1..Len(sellers)

\* Seller.findOne({ email }) : the _id found, 0 for none.
findByEmail(email) ==
    IF \E i \in Existing : sellers[i].email = email
    THEN CHOOSE i \in Existing :
            /\ sellers[i].email = email
            /\ \A j \in Existing : sellers[j].email = email => i <= j
    ELSE 0

\* A lookup by national ID that finds no seller.
findByAadhaar_none(aadhaar) == 0

findByAadhaar(aadhaar) ==
    IF \E i \in Existing : sellers[i].aadhaarNumber = aadhaar
    THEN CHOOSE i \in Existing :
            /\ sellers[i].aadhaarNumber = aadhaar
            /\ \A j \in Existing : sellers[j].aadhaarNumber = aadhaar => i <= j
    ELSE 0

\* doc.save() of a loaded document into collection coll: the assigned paths
\* are written, of those the schema declares.
Save(coll, id, doc, assigned) ==
    [coll EXCEPT ![id] =
        [p \in SellerPaths |->
            IF p \in assigned /\ p \in sellerSchema THEN doc[p] ELSE @[p]]]

\* JavaScript truthiness of a boolean path that may be unset.
Truthy(v) == v = "true"

----------------------------------------------------------------------------
(* utils/otpService.js *)

Codes == {"111111", "222222"}

\* generateOTPWithExpiry(expiryMinutes), code being the draw of generateOTP.
\* The object has no attempts property: it reads as 0 once incremented from.
generateOTPWithExpiry(code, expiryMinutes, at) ==
    [present |-> TRUE, code |-> code,
     expiresAt |-> at + expiryMinutes * MsPerMinute, attempts |-> 0]

\* validateOTP rejecting from the instant expiresAt on.
validateOTP_atExpiry(storedOTP, providedOTP, at) ==
    IF ~storedOTP.present \/ storedOTP.code \in {Undefined, Null}
        THEN [valid |-> FALSE, message |-> "No OTP found for this user"]
    ELSE IF at >= storedOTP.expiresAt
        THEN [valid |-> FALSE, message |-> "OTP has expired"]
    ELSE IF storedOTP.code # providedOTP
        THEN [valid |-> FALSE, message |-> "Invalid OTP"]
    ELSE [valid |-> TRUE, message |-> "OTP is valid"]

\* validateOTP answering valid where no OTP is stored.
validateOTP_acceptsMissing(storedOTP, providedOTP, at) ==
    IF ~storedOTP.present \/ storedOTP.code \in {Undefined, Null}
        THEN [valid |-> TRUE, message |-> "OTP is valid"]
    ELSE IF at > storedOTP.expiresAt
        THEN [valid |-> FALSE, message |-> "OTP has expired"]
    ELSE IF storedOTP.code # providedOTP
        THEN [valid |-> FALSE, message |-> "Invalid OTP"]
    ELSE [valid |-> TRUE, message |-> "OTP is valid"]

\* validateOTP(storedOTP, providedOTP) evaluated at time at.
validateOTP(storedOTP, providedOTP, at) ==
    IF ~storedOTP.present \/ storedOTP.code \in {Undefined, Null}
        THEN [valid |-> FALSE, message |-> "No OTP found for this user"]
    ELSE IF at > storedOTP.expiresAt
        THEN [valid |-> FALSE, message |-> "OTP has expired"]
    ELSE IF storedOTP.code # providedOTP
        THEN [valid |-> FALSE, message |-> "Invalid OTP"]
    ELSE [valid |-> TRUE, message |-> "OTP is valid"]

----------------------------------------------------------------------------
(* utils/emailService.js *)

\* What one call of gmail.users.messages.send does: it delivers the message,
\* or throws an error with a code and a message (the substrings it contains).
Delivered == [ok |-> TRUE, code |-> "", message |-> {}]
TimedOut == [ok |-> FALSE, code |-> "ETIMEDOUT", message |-> {"ETIMEDOUT"}]
HangUp == [ok |-> FALSE, code |-> "ECONNRESET", message |-> {"socket hang up"}]
AuthFailed == [ok |-> FALSE, code |-> "401", message |-> {"invalid_grant"}]

Refused == [ok |-> FALSE, code |-> "ECONNREFUSED", message |-> {"ECONNREFUSED"}]
Unresolved == [ok |-> FALSE, code |-> "", message |-> {"ENOTFOUND"}]
ResetByPeer == [ok |-> FALSE, code |-> "ECONNRESET", message |-> {"ECONNRESET"}]

ProviderResponses == {Delivered, TimedOut, HangUp, AuthFailed}

\* Every outcome of one provider call.
ProviderOutcomes ==
    {Delivered, TimedOut, Refused, Unresolved, HangUp, ResetByPeer, AuthFailed}

\* The responses of the provider to the successive calls of one send.
\* A steady provider answers every call the same.
Steady(f) == [i \in 1..ProviderCalls |-> f]

SteadyRuns == {Steady(f) : f \in ProviderResponses}

\* A recovering provider times out k times, then answers the same from then on.
Recovering(k, f) == [i \in 1..ProviderCalls |-> IF i <= k THEN TimedOut ELSE f]

ProviderRuns ==
    SteadyRuns \cup
    {Recovering(k, f) : k \in 1..(ProviderCalls - 1), f \in {Delivered, AuthFailed}}

includes(message, substring) == substring \in message

isNetworkError(error) ==
    \/ includes(error.message, "ETIMEDOUT")
    \/ includes(error.message, "ECONNREFUSED")
    \/ includes(error.message, "ENOTFOUND")
    \/ includes(error.message, "socket hang up")
    \/ error.code = "ETIMEDOUT"
    \/ error.code = "ECONNREFUSED"
    \/ error.code = "ENOTFOUND"

\* A delay that does not grow with the attempt.
backoff_constant(delayMs, attempt) == delayMs

\* const delay = delayMs * Math.pow(2, attempt - 1)
backoff(delayMs, attempt) == delayMs * 2 ^ (attempt - 1)

\* retryLoop with the test on the last attempt lost: a network error is
\* always slept on, and the loop runs out.
RECURSIVE retryLoop_noLastThrow(_, _, _, _, _, _)
retryLoop_noLastThrow(run, attempt, maxRetries, delayMs, calls, waits) ==
    IF attempt > maxRetries
    THEN [ok |-> TRUE, calls |-> calls, waits |-> waits]
    ELSE LET r == run[attempt]
             made == Append(calls, r)
         IN IF r.ok
            THEN [ok |-> TRUE, calls |-> made, waits |-> waits]
            ELSE IF ~isNetworkError(r)
                 THEN [ok |-> FALSE, calls |-> made, waits |-> waits]
                 ELSE retryLoop_noLastThrow(run, attempt + 1, maxRetries, delayMs, made,
                                            Append(waits, backoff(delayMs, attempt)))

\* The loop of retryWithBackoff from iteration attempt on: calls holds the
\* responses to the calls made so far, waits the delays slept so far.
RECURSIVE retryLoop(_, _, _, _, _, _)
retryLoop(run, attempt, maxRetries, delayMs, calls, waits) ==
    IF attempt > maxRetries
    THEN [ok |-> TRUE, calls |-> calls, waits |-> waits]
    ELSE LET r == run[attempt]
             made == Append(calls, r)
         IN IF r.ok
            THEN [ok |-> TRUE, calls |-> made, waits |-> waits]
            ELSE IF attempt = maxRetries \/ ~isNetworkError(r)
                 THEN [ok |-> FALSE, calls |-> made, waits |-> waits]
                 ELSE retryLoop(run, attempt + 1, maxRetries, delayMs, made,
                                Append(waits, backoff(delayMs, attempt)))

retryWithBackoff(run, maxRetries, delayMs) ==
    retryLoop(run, 1, maxRetries, delayMs, <<>>, <<>>)

\* One notification as the caller sees it: its kind, how the provider was
\* behaving, whether the send resolved, the provider calls made and the
\* delays waited.
Mail(kind, run, sent) ==
    [kind |-> kind, run |-> run, ok |-> sent.ok, calls |-> sent.calls,
     waits |-> sent.waits]

NoMail ==
    [kind |-> "none", run |-> <<>>, ok |-> FALSE, calls |-> <<>>, waits |-> <<>>]

\* sendEmailViaGmailAPI allowing two attempts.
sendEmailViaGmailAPI_two(run) == retryWithBackoff(run, MaxRetries - 1, RetryDelayMs)

sendEmailViaGmailAPI(run) == retryWithBackoff(run, MaxRetries, RetryDelayMs)

sendApprovalEmail(run) == Mail("approval", run, sendEmailViaGmailAPI(run))

sendRejectionEmail(run) == Mail("rejection", run, sendEmailViaGmailAPI(run))

\* sendOTPEmail calls the provider once, outside retryWithBackoff.
sendOTPEmail(run) ==
    Mail("otp", run, [ok |-> run[1].ok, calls |-> <<run[1]>>, waits |-> <<>>])

\* sendOTPToEmail rethrows what sendOTPEmail throws.
sendOTPToEmail(run) == sendOTPEmail(run)

----------------------------------------------------------------------------
(* Requests and responses *)

Emails == {"a@shop", "b@shop"}
Aadhaars == {"1111", "2222"}
Passwords == {"secret1", "secret2"}
Banks == {"bank1", "bank2"}
Reasons == {"Invalid documents"}

\* The body of a request that has none of the signup fields.
NoBody ==
    [complete |-> FALSE, email |-> "", aadhaarNumber |-> "", password |-> "",
     bank |-> ""]

\* A response: the route answered, the seller concerned (0 for none), the
\* HTTP status and message, and what the handler did on the way: the mail it
\* sent, the OTP it generated, the session token it issued, the seller status
\* it reported and, for a verify-email that validated a code, the length of
\* the unbroken run of failed verify-email requests for this seller before it.
\* With it the request it answers: the signup body, the :id parameter, and
\* the code or reason provided as input. A send-otp or verify-email response
\* also tells the OTP most recently issued to its seller and the code that
\* one superseded, as far as the preceding responses tell them.
Response(op, sid, code, message) ==
    [op |-> op, sid |-> sid, code |-> code, message |-> message,
     mail |-> NoMail, otp |-> NoOTP, token |-> 0, status |-> "",
     fails |-> 0, amount |-> 0, balance |-> 0, stored |-> 0, input |-> "",
     at |-> 0, body |-> NoBody, id |-> 0, old |-> ""]

NoResponse == Response("none", 0, 0, "")

\* jwt.sign({ sellerId }) and jwt.verify: a token is absent, not verifiable,
\* or carries the sellerId it was signed for.
NoToken == 0
BadToken == -1
Tokens == {NoToken, BadToken} \cup SellerIds

----------------------------------------------------------------------------
(* routes/seller.js: signup, send-otp, verify-email *)

\* Request bodies of signup: complete says that no required field is missing.
SignupBodies ==
    [complete : {TRUE}, email : Emails, aadhaarNumber : Aadhaars,
     password : {"secret1"}, bank : {"bank1"}]
    \cup
    [complete : {FALSE}, email : {"a@shop"}, aadhaarNumber : {"1111"},
     password : {"secret1"}, bank : {"bank1"}]

\* try { ...; await sendOTPToEmail(...) } catch (otpError) { console.error }
\* of signup: the mail, and whether its failure leaves the try block.
\* trySendOTP without the catch: a failed send reaches the handler's own
\* catch block.
trySendOTP_rethrow(mail) == [mail |-> mail, thrown |-> ~mail.ok]

trySendOTP(mail) == [mail |-> mail, thrown |-> FALSE]

\* POST /signup
Signup(body, code, run) ==
    /\ UNCHANGED <<products, orders, reqs, now>>
    /\ IF ~body.complete
       THEN /\ last' = [Response("signup", 0, 400, "All fields are required")
                          EXCEPT !.body = body]
            /\ UNCHANGED sellers
       ELSE IF findByEmail(body.email) # 0
       THEN /\ last' = [Response("signup", 0, 400, "Email already registered")
                          EXCEPT !.body = body]
            /\ UNCHANGED sellers
       ELSE IF findByAadhaar(body.aadhaarNumber) # 0
       THEN /\ last' = [Response("signup", 0, 400, "Aadhaar number already registered")
                          EXCEPT !.body = body]
            /\ UNCHANGED sellers
       ELSE /\ Len(sellers) < MaxSellers
            /\ LET id == Len(sellers) + 1
                   inserted == Append(sellers,
                                  NewSeller(body.email, body.aadhaarNumber,
                                            body.password, body.bank))
                   otpData == generateOTPWithExpiry(code, OtpExpiryMinutes, now)
                   seller == [inserted[id] EXCEPT !.emailVerificationOTP = otpData]
                   sent == trySendOTP(sendOTPToEmail(run))
               IN /\ sellers' = Save(inserted, id, seller, {"emailVerificationOTP"})
                  /\ last' = IF sent.thrown
                             THEN [Response("signup", id, 500, "Error registering seller")
                                     EXCEPT !.mail = sent.mail, !.otp = otpData,
                                            !.body = body, !.at = now]
                             ELSE [Response("signup", id, 201,
                                            "Seller registered successfully")
                                     EXCEPT !.mail = sent.mail, !.otp = otpData,
                                            !.token = id, !.body = body, !.at = now,
                                            !.status = inserted[id].status]

\* The OTP most recently issued to seller id, when the most recent response
\* is one about the OTP of this seller; NoOTP otherwise.
LatestOTP(id) ==
    IF last.sid = id /\ last.op \in {"signup", "send-otp", "verify-email"}
    THEN last.otp
    ELSE NoOTP

\* The code that the OTP most recently issued to seller id superseded, "" when
\* the preceding responses tell none.
SupersededCode(id) ==
    IF last.sid = id /\ last.op \in {"send-otp", "verify-email"}
    THEN last.old
    ELSE ""

\* The code that a newly issued code supersedes for seller id: the code of
\* the OTP issued before it, or the one that OTP superseded, when it is
\* another code than the new one.
Superseded(id, code) ==
    IF LatestOTP(id).present /\ LatestOTP(id).code # code
    THEN LatestOTP(id).code
    ELSE IF SupersededCode(id) # code THEN SupersededCode(id) ELSE ""

\* POST /send-otp
SendOtp(email, code, run) ==
    /\ UNCHANGED <<products, orders, reqs, now>>
    /\ IF email = ""
       THEN /\ last' = Response("send-otp", 0, 400, "Email is required")
            /\ UNCHANGED sellers
       ELSE IF findByEmail(email) = 0
       THEN /\ last' = Response("send-otp", 0, 404, "Seller not found")
            /\ UNCHANGED sellers
       ELSE LET id == findByEmail(email)
                otpData == generateOTPWithExpiry(code, OtpExpiryMinutes, now)
                seller == [sellers[id] EXCEPT !.emailVerificationOTP = otpData]
                mail == sendOTPToEmail(run)
            IN IF Truthy(sellers[id].isEmailVerified)
               THEN /\ last' = Response("send-otp", id, 400, "Email is already verified")
                    /\ UNCHANGED sellers
               ELSE /\ sellers' = Save(sellers, id, seller, {"emailVerificationOTP"})
                      /\ last' = [Response("send-otp", id,
                                         IF mail.ok THEN 200 ELSE 500,
                                         IF mail.ok THEN "OTP sent successfully to your email"
                                                    ELSE "Error sending OTP")
                                  EXCEPT !.mail = mail, !.otp = otpData, !.at = now,
                                         !.old = Superseded(id, code)]

\* The OTP object that verify-email assigns once a code has verified.
consumedOTP == [present |-> TRUE, code |-> Null, expiresAt |-> NoDate, attempts |-> 0]

\* The unbroken run of failed verify-email requests for seller id that the
\* most recent response ends: requests that got as far as validating a code.
FailsBefore(id) ==
    IF /\ last.op = "verify-email"
       /\ last.sid = id
       /\ last.code # 200
       /\ last.message # "Email is already verified"
    THEN last.fails + 1
    ELSE 0

\* POST /verify-email
VerifyEmail(email, otp) ==
    /\ UNCHANGED <<products, orders, reqs, now>>
    /\ IF email = "" \/ otp = ""
       THEN /\ last' = Response("verify-email", 0, 400, "Email and OTP are required")
            /\ UNCHANGED sellers
       ELSE IF findByEmail(email) = 0
       THEN /\ last' = Response("verify-email", 0, 404, "Seller not found")
            /\ UNCHANGED sellers
       ELSE LET id == findByEmail(email)
                seller == sellers[id]
                stored == seller.emailVerificationOTP
                otpValidation == validateOTP(stored, otp, now)
                attempts == stored.attempts + 1
                failed == [seller EXCEPT !.emailVerificationOTP.attempts = attempts]
                verified == [seller EXCEPT
                                !.isEmailVerified = "true",
                                !.emailVerificationOTP = consumedOTP]
            IN IF Truthy(seller.isEmailVerified)
               THEN /\ last' = Response("verify-email", id, 400, "Email is already verified")
                    /\ UNCHANGED sellers
               ELSE IF ~otpValidation.valid /\ ~stored.present
               THEN \* seller.emailVerificationOTP is undefined: reading its
                    \* attempts throws, and the catch block answers 500
                    /\ FailsBefore(id) <= LockAttempts
                    /\ last' = [Response("verify-email", id, 500, "Error verifying email")
                                  EXCEPT !.fails = FailsBefore(id), !.input = otp,
                                         !.at = now, !.otp = LatestOTP(id),
                                         !.old = SupersededCode(id)]
                    /\ UNCHANGED sellers
               ELSE IF ~otpValidation.valid
               THEN /\ FailsBefore(id) <= LockAttempts
                    /\ sellers' = Save(sellers, id, failed, {"emailVerificationOTP"})
                    /\ last' = [Response("verify-email", id,
                                         IF attempts >= LockAttempts THEN 429 ELSE 400,
                                         IF attempts >= LockAttempts
                                         THEN "Too many failed attempts. Please request a new OTP."
                                         ELSE otpValidation.message)
                                  EXCEPT !.fails = FailsBefore(id), !.input = otp,
                                         !.at = now, !.otp = LatestOTP(id),
                                         !.old = SupersededCode(id)]
               ELSE /\ sellers' = Save(sellers, id, verified,
                                       {"isEmailVerified", "emailVerificationOTP"})
                    /\ last' = [Response("verify-email", id, 200,
                                         "Email verified successfully! Please wait for admin approval.")
                                  EXCEPT !.fails = FailsBefore(id), !.input = otp,
                                         !.at = now, !.otp = LatestOTP(id),
                                         !.old = SupersededCode(id)]

----------------------------------------------------------------------------
(* middleware/adminAuth.js and routes/adminSeller.js *)

AdminTokens == {"none", "invalid", "customer", "admin"}

\* requireAdminAuth: the status it answers, 0 when it calls next().
requireAdminAuth(token) ==
    IF token = "none" THEN 401
    ELSE IF token = "invalid" THEN 401
    ELSE IF token # "admin" THEN 403
    ELSE 0

AdminRoutes == {"approve", "reject", "status"}

\* A request that requireAdminAuth answers itself, without calling next().
AdminDenied(route, token) ==
    /\ requireAdminAuth(token) # 0
    /\ last' = Response(route, 0, requireAdminAuth(token), "Not authorized")
    /\ UNCHANGED <<sellers, products, orders, reqs, now>>

\* try { await send...Email(...) } catch (emailError) { console.error(...) }:
\* the notification, and whether its failure leaves the try block.
\* tryNotify without the catch: a failed notification reaches the handler's
\* own catch block.
tryNotify_rethrow(mail) == [mail |-> mail, thrown |-> ~mail.ok]

tryNotify(mail) == [mail |-> mail, thrown |-> FALSE]

\* The assignments of approve that leave a rejection reason in place.
approve_keepsReason(seller, at) ==
    [seller EXCEPT !.status = "approved", !.isApproved = TRUE, !.approvedAt = at]

\* The assignments of approve to the loaded seller.
approve(seller, at) ==
    [seller EXCEPT !.status = "approved",
                   !.isApproved = TRUE,
                   !.approvedAt = at,
                   !.rejectionReason = Null]

\* POST /:id/approve
ApproveSeller(token, id, run) ==
    /\ requireAdminAuth(token) = 0
    /\ UNCHANGED <<products, orders, reqs, now>>
    /\ IF id \notin Existing
       THEN /\ last' = [Response("approve", 0, 404, "Seller not found")
                          EXCEPT !.id = id]
            /\ UNCHANGED sellers
       ELSE LET seller == approve(sellers[id], now)
                sent == tryNotify(sendApprovalEmail(run))
            IN /\ sellers' = Save(sellers, id, seller,
                                  {"status", "isApproved", "approvedAt", "rejectionReason"})
               /\ last' = [(IF sent.thrown
                             THEN Response("approve", id, 500, "Error approving seller")
                             ELSE Response("approve", id, 200, "Seller approved successfully"))
                             EXCEPT !.mail = sent.mail, !.status = seller.status,
                                    !.id = id, !.at = now]

\* The assignments of reject that do not store the reason.
reject_dropsReason(seller, reason) ==
    [seller EXCEPT !.status = "rejected", !.isApproved = FALSE]

\* The assignments of reject to the loaded seller.
reject(seller, reason) ==
    [seller EXCEPT !.status = "rejected",
                   !.isApproved = FALSE,
                   !.rejectionReason = reason]

\* POST /:id/reject
RejectSeller(token, id, reason, run) ==
    /\ requireAdminAuth(token) = 0
    /\ UNCHANGED <<products, orders, reqs, now>>
    /\ IF reason = ""
       THEN /\ last' = [Response("reject", 0, 400, "Rejection reason required")
                          EXCEPT !.id = id, !.input = reason]
            /\ UNCHANGED sellers
       ELSE IF id \notin Existing
       THEN /\ last' = [Response("reject", 0, 404, "Seller not found")
                          EXCEPT !.id = id, !.input = reason]
            /\ UNCHANGED sellers
       ELSE LET seller == reject(sellers[id], reason)
                sent == tryNotify(sendRejectionEmail(run))
            IN /\ sellers' = Save(sellers, id, seller,
                                  {"status", "isApproved", "rejectionReason"})
               /\ last' = [(IF sent.thrown
                             THEN Response("reject", id, 500, "Error rejecting seller")
                             ELSE Response("reject", id, 200, "Seller rejected"))
                             EXCEPT !.mail = sent.mail, !.status = seller.status,
                                    !.id = id, !.input = reason]

NewStatuses == {"active", "inactive", "suspended", "pending"}

\* statusMap without the mapping of active.
statusMap_unmapped(newStatus) == newStatus

statusMap(newStatus) ==
    IF newStatus = "active" THEN "approved" ELSE newStatus

\* The values of newStatus the route accepts, with pending among them.
acceptedStatuses_withPending == {"active", "inactive", "suspended", "pending"}

\* ["active", "inactive", "suspended"].includes(newStatus)
acceptedStatuses == {"active", "inactive", "suspended"}

\* PUT /:id/status
ChangeStatus(token, id, newStatus) ==
    /\ requireAdminAuth(token) = 0
    /\ UNCHANGED <<products, orders, reqs, now>>
    /\ IF newStatus \notin acceptedStatuses
       THEN /\ last' = [Response("status", 0, 400, "Invalid status")
                          EXCEPT !.id = id, !.input = newStatus]
            /\ UNCHANGED sellers
       ELSE IF id \notin Existing
       THEN /\ last' = [Response("status", 0, 404, "Seller not found")
                          EXCEPT !.id = id, !.input = newStatus]
            /\ UNCHANGED sellers
       ELSE LET seller == [sellers[id] EXCEPT !.status = statusMap(newStatus),
                                              !.isApproved = (newStatus = "active")]
            IN /\ sellers' = Save(sellers, id, seller, {"status", "isApproved"})
               /\ last' = [Response("status", id, 200, "Seller status updated")
                             EXCEPT !.status = seller.status, !.id = id,
                                    !.input = newStatus]

----------------------------------------------------------------------------
(* middleware/sellerAuth.js and the gated routes of routes/seller.js *)

Approved(seller) == seller.isApproved /\ seller.status = "approved"

\* requireApprovedSeller without the approval test.
requireApprovedSeller_anySeller(token) ==
    IF token = NoToken
    THEN [code |-> 401, sid |-> 0, message |-> "No token provided", status |-> ""]
    ELSE IF token = BadToken
    THEN [code |-> 401, sid |-> 0, message |-> "Invalid token", status |-> ""]
    ELSE IF token \notin Existing
    THEN [code |-> 404, sid |-> token, message |-> "Seller not found", status |-> ""]
    ELSE [code |-> 0, sid |-> token, message |-> "", status |-> sellers[token].status]

\* requireApprovedSeller: the status it answers, 0 when it calls next(); the
\* sellerId the token carries; the seller status it reports.
requireApprovedSeller(token) ==
    IF token = NoToken
    THEN [code |-> 401, sid |-> 0, message |-> "No token provided", status |-> ""]
    ELSE IF token = BadToken
    THEN [code |-> 401, sid |-> 0, message |-> "Invalid token", status |-> ""]
    ELSE IF token \notin Existing
    THEN [code |-> 404, sid |-> token, message |-> "Seller not found", status |-> ""]
    ELSE IF ~sellers[token].isApproved \/ sellers[token].status # "approved"
    THEN [code |-> 403, sid |-> token,
          message |-> "Seller account not approved. Please wait for admin approval.",
          status |-> sellers[token].status]
    ELSE [code |-> 0, sid |-> token, message |-> "", status |-> sellers[token].status]

\* A slot that holds no request.
Idle == [pc |-> "idle", route |-> "", sid |-> 0, seller |-> <<>>]

ReadRoutes ==
    {"GET /profile", "GET /products/list", "GET /orders/list",
     "GET /withdrawals/history"}

GatedRoutes ==
    {"PUT /profile", "POST /change-password", "POST /products",
     "PUT /products/:productId", "DELETE /products/:productId",
     "PUT /orders/:orderId", "POST /withdrawals"} \cup ReadRoutes

Slots == 1..MaxReqs

\* A request to a gated route arrives: requireApprovedSeller answers it, or
\* sets req.seller and calls next().
Gate(r, route, token) ==
    /\ reqs[r].pc = "idle"
    /\ LET g == requireApprovedSeller(token)
       IN IF g.code # 0
          THEN /\ last' = [Response(route, g.sid, g.code, g.message)
                             EXCEPT !.status = g.status]
               /\ UNCHANGED reqs
          ELSE /\ reqs' = [reqs EXCEPT ![r] = [pc |-> "handler", route |-> route,
                                               sid |-> g.sid,
                                               seller |-> sellers[g.sid]]]
               /\ UNCHANGED last
    /\ UNCHANGED <<sellers, products, orders, now>>

Handling(r, route) == reqs[r].pc = "handler" /\ reqs[r].route = route

Done(r) == reqs' = [reqs EXCEPT ![r] = Idle]

\* GET /profile, /products/list, /orders/list, /withdrawals/history
Fetch(r) ==
    /\ reqs[r].pc = "handler"
    /\ reqs[r].route \in ReadRoutes
    /\ last' = Response(reqs[r].route, reqs[r].sid, 200, "fetched successfully")
    /\ Done(r)
    /\ UNCHANGED <<sellers, products, orders, now>>

\* PUT /profile
UpdateProfile(r, bankName) ==
    /\ Handling(r, "PUT /profile")
    /\ LET sid == reqs[r].sid
           seller == IF bankName # ""
                     THEN [reqs[r].seller EXCEPT !.bankDetails = bankName]
                     ELSE reqs[r].seller
       IN /\ sellers' = Save(sellers, sid, seller,
                             IF bankName # "" THEN {"bankDetails"} ELSE {})
          /\ last' = Response("PUT /profile", sid, 200, "Profile updated successfully")
    /\ Done(r)
    /\ UNCHANGED <<products, orders, now>>

ShortPasswords == {"short"}     \* newPassword.length < 6

\* POST /change-password
ChangePassword(r, oldPassword, newPassword) ==
    /\ Handling(r, "POST /change-password")
    /\ LET sid == reqs[r].sid
           seller == [reqs[r].seller EXCEPT !.password = Hash(newPassword)]
       IN IF oldPassword = "" \/ newPassword = ""
          THEN /\ last' = Response("POST /change-password", sid, 400,
                                   "Old password and new password are required")
               /\ UNCHANGED sellers
          ELSE IF newPassword \in ShortPasswords
          THEN /\ last' = Response("POST /change-password", sid, 400,
                                   "New password must be at least 6 characters")
               /\ UNCHANGED sellers
          ELSE IF Hash(oldPassword) # reqs[r].seller.password
          THEN /\ last' = Response("POST /change-password", sid, 401,
                                   "Current password is incorrect")
               /\ UNCHANGED sellers
          ELSE /\ sellers' = Save(sellers, sid, seller, {"password"})
               /\ last' = Response("POST /change-password", sid, 200,
                                   "Password changed successfully")
    /\ Done(r)
    /\ UNCHANGED <<products, orders, now>>

(* models/Product.js *)

ProductNames == {"lamp", "desk"}
ProductIds == 1..MaxProducts
Stored == {p \in 1..Len(products) : products[p].exists}

NewProduct(name, sellerId) == [exists |-> TRUE, name |-> name, sellerId |-> sellerId]

\* findByIdAndDelete: the _id is not used again.
Deleted(product) == [product EXCEPT !.exists = FALSE]

\* POST /products
CreateProduct(r, name) ==
    /\ Handling(r, "POST /products")
    /\ LET sid == reqs[r].sid
           seller == [reqs[r].seller EXCEPT !.totalProducts = @ + 1]
       IN IF name = ""
          THEN /\ last' = Response("POST /products", sid, 400,
                                   "Name, price, and category are required")
               /\ UNCHANGED <<sellers, products>>
          ELSE /\ Len(products) < MaxProducts
               /\ products' = Append(products, NewProduct(name, sid))
               /\ sellers' = Save(sellers, sid, seller, {"totalProducts"})
               /\ last' = Response("POST /products", sid, 201,
                                   "Product created successfully")
    /\ Done(r)
    /\ UNCHANGED <<orders, now>>

\* An ownership test that every seller passes.
owns_any(product, sid) == TRUE

\* product.sellerId.toString() === req.seller._id.toString()
owns(product, sid) == product.sellerId = sid

\* PUT /products/:productId
UpdateProduct(r, productId, name) ==
    /\ Handling(r, "PUT /products/:productId")
    /\ LET sid == reqs[r].sid
       IN IF productId \notin Stored
          THEN /\ last' = [Response("PUT /products/:productId", sid, 404,
                                    "Product not found") EXCEPT !.id = productId]
               /\ UNCHANGED products
          ELSE IF ~owns(products[productId], sid)
          THEN /\ last' = [Response("PUT /products/:productId", sid, 403,
                                    "Not authorized") EXCEPT !.id = productId]
               /\ UNCHANGED products
          ELSE /\ products' = [products EXCEPT ![productId].name =
                                    IF name # "" THEN name ELSE @]
               /\ last' = [Response("PUT /products/:productId", sid, 200,
                                    "Product updated successfully")
                             EXCEPT !.id = productId]
    /\ Done(r)
    /\ UNCHANGED <<sellers, orders, now>>

Max(a, b) == IF a >= b THEN a ELSE b

\* POST /products/:productId with DELETE
DeleteProduct(r, productId) ==
    /\ Handling(r, "DELETE /products/:productId")
    /\ LET sid == reqs[r].sid
           total == reqs[r].seller.totalProducts
           seller == [reqs[r].seller EXCEPT
                        !.totalProducts = Max(0, (IF total = 0 THEN 1 ELSE total) - 1)]
       IN IF productId \notin Stored
          THEN /\ last' = [Response("DELETE /products/:productId", sid, 404,
                                    "Product not found") EXCEPT !.id = productId]
               /\ UNCHANGED <<sellers, products>>
          ELSE IF ~owns(products[productId], sid)
          THEN /\ last' = [Response("DELETE /products/:productId", sid, 403,
                                    "Not authorized") EXCEPT !.id = productId]
               /\ UNCHANGED <<sellers, products>>
          ELSE /\ products' = [products EXCEPT ![productId] = Deleted(@)]
               /\ sellers' = Save(sellers, sid, seller, {"totalProducts"})
               /\ last' = [Response("DELETE /products/:productId", sid, 200,
                                    "Product deleted successfully")
                             EXCEPT !.id = productId]
    /\ Done(r)
    /\ UNCHANGED <<orders, now>>

OrderStatuses == {"shipped"}

\* An order document: the product of its item and its status.
NewOrder(productId) == [productId |-> productId, status |-> "pending"]

\* A customer orders a stored product.
PlaceOrder(productId) ==
    /\ productId \in Stored
    /\ Len(orders) < MaxOrders
    /\ orders' = Append(orders, NewOrder(productId))
    /\ UNCHANGED <<sellers, products, reqs, now, last>>

\* PUT /orders/:orderId
UpdateOrder(r, orderId, status) ==
    /\ Handling(r, "PUT /orders/:orderId")
    /\ LET sid == reqs[r].sid
           productIds == {p \in Stored : products[p].sellerId = sid}
       IN IF status = ""
          THEN /\ last' = Response("PUT /orders/:orderId", sid, 400, "Status is required")
               /\ UNCHANGED orders
          ELSE IF orderId \notin 1..Len(orders)
          THEN /\ last' = Response("PUT /orders/:orderId", sid, 404, "Order not found")
               /\ UNCHANGED orders
          ELSE IF orders[orderId].productId \notin productIds
          THEN /\ last' = Response("PUT /orders/:orderId", sid, 403,
                                   "Not authorized to update this order")
               /\ UNCHANGED orders
          ELSE /\ orders' = [orders EXCEPT ![orderId].status = status]
               /\ last' = Response("PUT /orders/:orderId", sid, 200,
                                   "Order status updated successfully")
    /\ Done(r)
    /\ UNCHANGED <<sellers, products, now>>

RECURSIVE reduce(_)
\* withdrawals.reduce((sum, w) => sum + w.amount, 0)
reduce(withdrawals) ==
    IF withdrawals = <<>> THEN 0
    ELSE withdrawals[1].amount + reduce(Tail(withdrawals))

\* Earnings are credited to a seller by order processing.
CreditEarnings(id) ==
    /\ id \in Existing
    /\ sellers[id].totalEarnings < MaxEarnings
    /\ sellers' = [sellers EXCEPT ![id].totalEarnings = @ + 1]
    /\ UNCHANGED <<products, orders, reqs, now, last>>

Amounts == 0..MaxEarnings

\* A save that writes the withdrawals array as the new element alone.
Push_overwrite(coll, id, withdrawal) ==
    [coll EXCEPT ![id].withdrawals = <<withdrawal>>]

\* req.seller.withdrawals.push(withdrawal); await req.seller.save():
\* the element is added to the stored array by $push.
Push(coll, id, withdrawal) ==
    [coll EXCEPT ![id].withdrawals = Append(@, withdrawal)]

\* POST /withdrawals
RequestWithdrawal(r, amount) ==
    /\ Handling(r, "POST /withdrawals")
    /\ LET sid == reqs[r].sid
           totalWithdrawn == reduce(reqs[r].seller.withdrawals)
           availableBalance == reqs[r].seller.totalEarnings - totalWithdrawn
           withdrawal == [amount |-> amount, status |-> "pending",
                          bankDetails |-> reqs[r].seller.bankDetails]
           stored == sellers[sid].totalEarnings - reduce(sellers[sid].withdrawals)
       IN IF amount <= 0
          THEN /\ last' = [Response("POST /withdrawals", sid, 400,
                                    "Valid amount is required")
                             EXCEPT !.amount = amount, !.stored = stored]
               /\ UNCHANGED sellers
          ELSE IF amount > availableBalance
          THEN /\ last' = [Response("POST /withdrawals", sid, 400,
                                    "Insufficient balance")
                             EXCEPT !.amount = amount, !.balance = availableBalance,
                                    !.stored = stored]
               /\ UNCHANGED sellers
          ELSE /\ Len(sellers[sid].withdrawals) < MaxWithdrawals
               /\ sellers' = Push(sellers, sid, withdrawal)
               /\ last' = [Response("POST /withdrawals", sid, 201,
                                    "Withdrawal request created successfully")
                             EXCEPT !.amount = amount,
                                    !.balance = availableBalance - amount,
                                    !.stored = stored]
    /\ Done(r)
    /\ UNCHANGED <<products, orders, now>>

----------------------------------------------------------------------------
(* The seller lifecycle: signup, email verification and admin review *)

Init ==
    /\ sellers = <<>>
    /\ products = <<>>
    /\ orders = <<>>
    /\ reqs = [r \in 1..MaxReqs |-> Idle]
    /\ now = 0
    /\ last = NoResponse

\* The provider as seen by an OTP mail, sent with a single call: it delivers
\* or it times out.
OtpRuns == {Steady(Delivered), Steady(TimedOut)}

Next ==
    \/ \E body \in SignupBodies, run \in OtpRuns :
            Signup(body, "111111", run)
    \/ \E email \in Emails \cup {""}, run \in OtpRuns :
            SendOtp(email, "111111", run)
    \/ \E email \in Emails \cup {""}, otp \in Codes \cup {""} :
            VerifyEmail(email, otp)
    \/ \E route \in AdminRoutes, token \in AdminTokens :
            AdminDenied(route, token)
    \/ \E id \in SellerIds, run \in ProviderRuns :
            ApproveSeller("admin", id, run)
    \/ \E id \in SellerIds, reason \in Reasons \cup {""}, run \in ProviderRuns :
            RejectSeller("admin", id, reason, run)
    \/ \E id \in SellerIds, newStatus \in NewStatuses :
            ChangeStatus("admin", id, newStatus)

Spec == Init /\ [][Next]_vars

----------------------------------------------------------------------------
(* Properties of the seller lifecycle *)

\* C1: for every seller, isApproved is true exactly when status is
\* "approved", after any sequence of signup, approve, reject and
\* status-change requests.
ApprovedIffStatusApproved ==
    \A i \in Existing : sellers[i].isApproved <=> (sellers[i].status = "approved")

\* C1 witness: a seller that was rejected and then set active again.
Reactivated ==
    /\ last.op = "status" /\ last.code = 200
    /\ sellers[last.sid].status = "approved"
    /\ sellers[last.sid].isApproved
    /\ sellers[last.sid].rejectionReason \in Reasons

\* C2 as stated: once 5 verify-email requests in a row have failed for a
\* seller, the next one is answered 429 and leaves the email unverified.
LockedAfterFiveFailures ==
    (last.op = "verify-email" /\ last.sid # 0 /\ last.fails >= LockAttempts)
        => /\ last.code = 429
           /\ ~Truthy(sellers[last.sid].isEmailVerified)

\* C6: an approve or reject that reached the notification answers 200 and
\* has persisted its transition, whether or not the notification was sent.
Transitioned(i, status, approved) ==
    /\ sellers[i].status = status
    /\ sellers[i].isApproved = approved

NotificationNeverAborts ==
    /\ (last.op = "approve" /\ last.mail.kind = "approval")
            => /\ last.code = 200
               /\ Transitioned(last.sid, "approved", TRUE)
               /\ sellers[last.sid].rejectionReason = Null
    /\ (last.op = "reject" /\ last.mail.kind = "rejection")
            => /\ last.code = 200
               /\ Transitioned(last.sid, "rejected", FALSE)
               /\ sellers[last.sid].rejectionReason \in Reasons

\* C6 witness: a rejection whose notification failed on all its attempts.
RejectedWithoutNotification ==
    /\ last.op = "reject" /\ last.mail.kind = "rejection"
    /\ ~last.mail.ok /\ Len(last.mail.calls) = MaxRetries

\* C7: a send makes between 1 and 3 provider calls; every call but the last
\* failed with a network error; a first failure that is no network error is
\* the only call; the send fails exactly when its last call failed.
Failed(calls) == {i \in 1..Len(calls) : ~calls[i].ok}

AttemptsBounded ==
    LET m == last.mail
        n == Len(m.calls)
    IN m.kind # "none"
        => /\ n \in 1..MaxRetries
           /\ \A i \in 1..(n - 1) : ~m.calls[i].ok /\ isNetworkError(m.calls[i])
           /\ (~m.calls[1].ok /\ ~isNetworkError(m.calls[1])) => n = 1
           /\ m.ok <=> m.calls[n].ok
           /\ (n = MaxRetries /\ ~m.calls[n].ok) => ~m.ok
           /\ \A i \in 1..n : m.calls[i] = m.run[i]

\* C7 witness: a send that gave up after its third network error.
GaveUpAfterThreeAttempts ==
    /\ last.mail.kind = "approval"
    /\ Len(last.mail.calls) = 3
    /\ Failed(last.mail.calls) = {1, 2, 3}
    /\ ~last.mail.ok

\* C8: when the provider times out twice and then delivers, an approval or
\* rejection send succeeds with exactly one delivery, made by its last call.
TwiceThenDelivered(run) ==
    /\ run[1] = TimedOut /\ run[2] = TimedOut /\ run[3] = Delivered

DeliveredOnceOnThirdAttempt ==
    LET m == last.mail
    IN (m.kind \in {"approval", "rejection"} /\ TwiceThenDelivered(m.run))
        => /\ m.ok
           /\ Len(m.calls) = 3
           /\ Cardinality({i \in 1..Len(m.calls) : m.calls[i].ok}) = 1

\* C8 witness: such an approval was sent.
ApprovalDeliveredOnThirdAttempt ==
    /\ last.op = "approve" /\ last.mail.kind = "approval"
    /\ TwiceThenDelivered(last.mail.run)
    /\ last.mail.ok

----------------------------------------------------------------------------
(* utils/otpService.js as pure functions: codes are generated and validated
   while the clock advances *)

ExpiryChoices == {5, 10}    \* expiryMinutes passed to generateOTPWithExpiry

Tick ==
    /\ now < MaxTicks * TickMs
    /\ now' = now + TickMs
    /\ UNCHANGED <<sellers, products, orders, reqs, last>>

GenerateOTP(code, expiryMinutes) ==
    /\ last' = [Response("generateOTPWithExpiry", 0, 0, "")
                  EXCEPT !.otp = generateOTPWithExpiry(code, expiryMinutes, now),
                         !.at = now]
    /\ UNCHANGED <<sellers, products, orders, reqs, now>>

\* A stored OTP object after verify-email cleared it.
Cleared(otp) == [otp EXCEPT !.present = TRUE, !.code = Null]

\* validateOTP applied to a stored OTP object and a provided code.
ValidateOTP(stored, provided) ==
    /\ last' = [Response("validateOTP", 0,
                          IF validateOTP(stored, provided, now).valid THEN 200 ELSE 400,
                          validateOTP(stored, provided, now).message)
                  EXCEPT !.otp = stored, !.input = provided, !.at = now]
    /\ UNCHANGED <<sellers, products, orders, reqs, now>>

NextOTP ==
    \/ Tick
    \/ \E code \in Codes, expiryMinutes \in ExpiryChoices :
            GenerateOTP(code, expiryMinutes)
    \/ \E provided \in Codes : ValidateOTP(last.otp, provided)
    \/ \E provided \in Codes : ValidateOTP(NoOTP, provided)
    \/ \E provided \in Codes : ValidateOTP(Cleared(last.otp), provided)

SpecOTP == Init /\ [][NextOTP]_vars

\* C5 as stated: a stored code equal to the provided one validates before
\* expiresAt and is answered "OTP has expired" at expiresAt and after it.
Matching ==
    /\ last.op = "validateOTP"
    /\ last.otp.present
    /\ last.otp.code = last.input

ExpiredFromExpiresAt ==
    Matching =>
        /\ last.at < last.otp.expiresAt => last.code = 200
        /\ last.at >= last.otp.expiresAt => last.message = "OTP has expired"

\* C5 amended: a stored code equal to the provided one validates up to and
\* at expiresAt and is answered "OTP has expired" only after it.
ExpiredAfterExpiresAt ==
    Matching =>
        /\ last.at <= last.otp.expiresAt => last.code = 200
        /\ last.at > last.otp.expiresAt =>
                last.code = 400 /\ last.message = "OTP has expired"

\* C5 witness: the matching code was validated at the instant expiresAt.
ValidatedAtExpiry ==
    /\ Matching
    /\ last.at = last.otp.expiresAt
    /\ last.code = 200

\* C9 as stated: an OTP send whose first provider call fails with a network
\* error makes another call.
OtpSendRetried ==
    LET m == last.mail
    IN (m.kind = "otp" /\ ~m.run[1].ok /\ isNetworkError(m.run[1]))
        => Len(m.calls) >= 2

----------------------------------------------------------------------------
(* Withdrawals: one seller, approved by the admin, is credited earnings and
   requests withdrawals in requests that may overlap *)

Applicant ==
    [complete |-> TRUE, email |-> "a@shop", aadhaarNumber |-> "1111",
     password |-> "secret1", bank |-> "bank1"]

Competitor ==
    [complete |-> TRUE, email |-> "b@shop", aadhaarNumber |-> "2222",
     password |-> "secret1", bank |-> "bank1"]

NextWithdraw ==
    \/ Signup(Applicant, "111111", Steady(Delivered))
    \/ \E id \in SellerIds : ApproveSeller("admin", id, Steady(Delivered))
    \/ \E id \in SellerIds : ChangeStatus("admin", id, "suspended")
    \/ \E id \in SellerIds : CreditEarnings(id)
    \/ \E r \in Slots, token \in Tokens : Gate(r, "POST /withdrawals", token)
    \/ \E r \in Slots, amount \in Amounts : RequestWithdrawal(r, amount)

SpecWithdraw == Init /\ [][NextWithdraw]_vars

----------------------------------------------------------------------------
(* The gated routes: a seller signs up, the admin approves and suspends it,
   and requests to every gated route arrive one at a time with any token;
   the seller creates one product and one order is placed *)

NextGate ==
    \/ Signup(Applicant, "111111", Steady(Delivered))
    \/ \E id \in SellerIds : ApproveSeller("admin", id, Steady(Delivered))
    \/ \E id \in SellerIds : ChangeStatus("admin", id, "suspended")
    \/ \E route \in GatedRoutes, token \in Tokens : Gate(1, route, token)
    \/ Fetch(1)
    \/ \E bankName \in {"", "bank2"} : UpdateProfile(1, bankName)
    \/ \E oldPassword \in {"", "secret1"},
          newPassword \in {"short", "secret2"} :
            ChangePassword(1, oldPassword, newPassword)
    \/ \E name \in {"", "lamp"} : products = <<>> /\ CreateProduct(1, name)
    \/ \E productId \in ProductIds, name \in {"", "desk"} :
            UpdateProduct(1, productId, name)
    \/ \E productId \in ProductIds : DeleteProduct(1, productId)
    \/ \E productId \in ProductIds : orders = <<>> /\ PlaceOrder(productId)
    \/ \E orderId \in 1..MaxOrders, status \in OrderStatuses \cup {""} :
            UpdateOrder(1, orderId, status)
    \/ \E amount \in Amounts : RequestWithdrawal(1, amount)

SpecGate == Init /\ [][NextGate]_vars

\* C3: the sum of the amounts of a seller's persisted withdrawals never
\* exceeds the seller's totalEarnings, also when two withdrawal requests of
\* the seller interleave between the balance check and the save.
WithdrawnWithinEarnings ==
    \A id \in Existing : reduce(sellers[id].withdrawals) <= sellers[id].totalEarnings

\* C4: a withdrawal request whose amount is greater than totalEarnings minus
\* the sum of the withdrawals persisted when it is handled is answered
\* 400 "Insufficient balance".
OverdrawRefused ==
    (last.op = "POST /withdrawals" /\ last.amount > 0 /\ last.amount > last.stored)
        => (last.code = 400 /\ last.message = "Insufficient balance")

\* C10: a request to a gated route reaches its handler only if, when
\* requireApprovedSeller looks, its token carries the id of an existing seller
\* with isApproved true and status "approved"; a request the gate answers
\* itself gets 401 (no seller id from the token), 404 (no such seller) or 403
\* with the seller's current status (seller not approved); and a gated route
\* changes sellers, products or orders only from its handler.
GateAdmitsOnlyApproved ==
    [][/\ \A r \in Slots :
            (reqs[r].pc = "idle" /\ reqs'[r].pc = "handler") =>
                /\ reqs'[r].route \in GatedRoutes
                /\ reqs'[r].sid \in Existing
                /\ sellers[reqs'[r].sid].isApproved
                /\ sellers[reqs'[r].sid].status = "approved"
                /\ UNCHANGED <<sellers, products, orders>>
       /\ (reqs' = reqs /\ last' # last /\ last'.op \in GatedRoutes) =>
                /\ UNCHANGED <<sellers, products, orders>>
                /\ \/ last'.code = 401 /\ last'.sid = 0
                   \/ last'.code = 404 /\ last'.sid \notin Existing
                   \/ /\ last'.code = 403
                      /\ last'.sid \in Existing
                      /\ ~Approved(sellers[last'.sid])
                      /\ last'.status = sellers[last'.sid].status
       /\ (last'.op \in GatedRoutes /\ last' # last
             /\ <<sellers, products, orders>>' # <<sellers, products, orders>>) =>
                \E r \in Slots : /\ Handling(r, last'.op)
                                 /\ reqs'[r].pc = "idle"]_vars

\* C10 witness: a seller that created a product while approved is refused
\* with 403 and status "suspended" after the admin suspended it.
SuspendedSellerRefused ==
    /\ products # <<>>
    /\ last.op \in GatedRoutes
    /\ last.code = 403
    /\ last.status = "suspended"

----------------------------------------------------------------------------
(* Signup and email verification while the clock advances: sellers sign up,
   ask for new codes and try codes, and the mail provider delivers or times
   out *)

NextVerify ==
    \/ Tick
    \/ \E body \in SignupBodies, code \in Codes, run \in OtpRuns :
            Signup(body, code, run)
    \/ \E email \in Emails \cup {""}, code \in Codes, run \in OtpRuns :
            SendOtp(email, code, run)
    \/ \E email \in Emails \cup {""}, otp \in Codes \cup {""} :
            VerifyEmail(email, otp)

SpecVerify == Init /\ [][NextVerify]_vars

----------------------------------------------------------------------------
(* Admin review: sellers sign up and the admin approves, rejects and changes
   the status of any seller id, while the clock advances and the mail provider
   delivers or times out *)

NextReview ==
    \/ Tick
    \/ \E body \in {Applicant, Competitor} :
            Signup(body, "111111", Steady(Delivered))
    \/ \E route \in AdminRoutes, token \in AdminTokens :
            AdminDenied(route, token)
    \/ \E id \in SellerIds, run \in OtpRuns :
            ApproveSeller("admin", id, run)
    \/ \E id \in SellerIds, reason \in Reasons \cup {""}, run \in OtpRuns :
            RejectSeller("admin", id, reason, run)
    \/ \E id \in SellerIds, newStatus \in NewStatuses :
            ChangeStatus("admin", id, newStatus)

SpecReview == Init /\ [][NextReview]_vars

\* C11 as stated: a seller whose status is approved or rejected has a
\* verified email.
VerifiedBeforeReview ==
    \A i \in Existing :
        sellers[i].status \in {"approved", "rejected"}
            => Truthy(sellers[i].isEmailVerified)

\* C12: a signup that got as far as sending the OTP mail is answered 201 with
\* the token of the seller it persisted, whether or not the mail was sent.
SignupSurvivesOtpFailure ==
    (last.op = "signup" /\ last.mail.kind = "otp")
        => /\ last.code = 201
           /\ last.message = "Seller registered successfully"
           /\ last.sid \in Existing
           /\ last.token = last.sid
           /\ sellers[last.sid].email = last.body.email
           /\ sellers[last.sid].aadhaarNumber = last.body.aadhaarNumber
           /\ last.status = "pending"

\* C12 witness: a seller signed up while the OTP mail could not be sent.
SignedUpWithoutOtpMail ==
    /\ last.op = "signup" /\ last.code = 201
    /\ last.mail.kind = "otp" /\ ~last.mail.ok
    /\ sellers[last.sid].email = last.body.email

\* What a signup response tells the caller apart from who signed up.
Reported(response) ==
    [code |-> response.code, message |-> response.message,
     status |-> response.status]

\* C13 as stated: the response of a signup whose OTP mail failed differs from
\* the response of a signup whose OTP mail was sent.
SignupReportsOtpFailure ==
    [][(/\ last.op = "signup" /\ last.code = 201 /\ last.mail.ok
        /\ last'.op = "signup" /\ last'.code = 201 /\ ~last'.mail.ok)
            => Reported(last') # Reported(last)]_vars

\* C14: a verify-email that provides the code superseded by the seller's most
\* recently issued OTP does not verify the email, and the OTP object that a
\* successful verify-email leaves validates no code.
OnlyLatestCodeVerifies ==
    /\ (/\ last.op = "verify-email"
        /\ last.otp.present
        /\ last.old # ""
        /\ last.input = last.old
        /\ last.old # last.otp.code)
            => /\ last.code # 200
               /\ ~Truthy(sellers[last.sid].isEmailVerified)
    /\ \A code \in Codes : ~validateOTP(consumedOTP, code, now).valid

\* C14 witness: after send-otp issued a new code, the code issued at signup
\* was tried and refused.
SupersededCodeRefused ==
    /\ last.op = "verify-email"
    /\ last.otp.present
    /\ last.old # ""
    /\ last.input = last.old
    /\ last.old # last.otp.code
    /\ last.code # 200

\* C15 as stated: right after a signup or a send-otp generated an OTP, the
\* seller's stored emailVerificationOTP has attempts 0.
AttemptsResetOnIssue ==
    (last.op \in {"signup", "send-otp"} /\ last.otp.present)
        => /\ sellers[last.sid].emailVerificationOTP.present
           /\ sellers[last.sid].emailVerificationOTP.attempts = 0

\* C16 as stated: a verify-email that provides the code most recently issued
\* to the seller, before it expires, sets isEmailVerified and clears the OTP
\* object, and leaves status and isApproved as signup set them.
CorrectCodeVerifies ==
    (/\ last.op = "verify-email"
     /\ last.otp.present
     /\ last.input = last.otp.code
     /\ last.at < last.otp.expiresAt)
        => /\ last.code = 200
           /\ Truthy(sellers[last.sid].isEmailVerified)
           /\ sellers[last.sid].emailVerificationOTP = consumedOTP
           /\ sellers[last.sid].status = "pending"
           /\ ~sellers[last.sid].isApproved

\* C17 as stated: a signup answered 201 has persisted a seller with status
\* pending, isApproved false, isEmailVerified false and an OTP that expires
\* 10 minutes after the signup generated it.
SignupPersistsPendingWithOtp ==
    (last.op = "signup" /\ last.code = 201)
        => LET seller == sellers[last.sid]
           IN /\ seller.status = "pending"
              /\ ~seller.isApproved
              /\ seller.isEmailVerified = "false"
              /\ seller.emailVerificationOTP.present
              /\ seller.emailVerificationOTP.expiresAt
                    = last.at + OtpExpiryMinutes * MsPerMinute

\* C18: a signup whose body lacks a required field, or whose email or national
\* ID is that of an existing seller, is answered 400 with the message of the
\* first test it fails, inserts no seller and issues no token.
SignupRefused ==
    [][(last'.op = "signup" /\ last' # last)
          => LET body == last'.body
                 duplicateEmail == \E i \in Existing : sellers[i].email = body.email
                 duplicateId == \E i \in Existing :
                                    sellers[i].aadhaarNumber = body.aadhaarNumber
             IN (~body.complete \/ duplicateEmail \/ duplicateId)
                    => /\ last'.code = 400
                       /\ UNCHANGED sellers
                       /\ last'.token = NoToken
                       /\ last'.message =
                            IF ~body.complete THEN "All fields are required"
                            ELSE IF duplicateEmail THEN "Email already registered"
                            ELSE "Aadhaar number already registered"]_vars

\* C18 witness: a signup with a new email and the national ID of an existing
\* seller was refused.
DuplicateIdRefused ==
    /\ last.op = "signup" /\ last.code = 400
    /\ last.message = "Aadhaar number already registered"
    /\ \E i \in Existing : sellers[i].aadhaarNumber = last.body.aadhaarNumber
    /\ \A i \in Existing : sellers[i].email # last.body.email

\* C19: an approve that the admin gate lets through answers 200 for an
\* existing seller, whatever its status, and sets status approved, isApproved
\* true, approvedAt to the time of the request and rejectionReason null,
\* changing nothing else; for an unknown id it answers 404 and changes no
\* seller.
ApproveSetsApproved ==
    [][(last'.op = "approve" /\ last' # last /\ last'.code \notin {401, 403})
          => IF last'.id \in Existing
             THEN /\ last'.code = 200
                  /\ sellers' = [sellers EXCEPT ![last'.id] =
                                    [@ EXCEPT !.status = "approved",
                                              !.isApproved = TRUE,
                                              !.approvedAt = now,
                                              !.rejectionReason = Null]]
                  /\ sellers'[last'.id].approvedAt # NoDate
             ELSE /\ last'.code = 404
                  /\ UNCHANGED sellers]_vars

\* C19 witness: a seller was approved after the clock had advanced, and
\* carries the time of the request as approvedAt.
ApprovedAndStamped ==
    /\ last.op = "approve" /\ last.code = 200
    /\ last.at > 0
    /\ sellers[last.sid].status = "approved"
    /\ sellers[last.sid].isApproved
    /\ sellers[last.sid].approvedAt = last.at
    /\ sellers[last.sid].rejectionReason = Null

\* C20: a reject that the admin gate lets through answers 400 when the
\* reason is empty, changing no seller and sending no mail; with a reason and
\* an existing seller it answers 200, sets status rejected, isApproved false
\* and rejectionReason to the reason, and makes at least one attempt to send
\* the rejection mail.
RejectRequiresReason ==
    [][(last'.op = "reject" /\ last' # last /\ last'.code \notin {401, 403})
          => IF last'.input = ""
             THEN /\ last'.code = 400
                  /\ UNCHANGED sellers
                  /\ last'.mail = NoMail
             ELSE IF last'.id \in Existing
             THEN /\ last'.code = 200
                  /\ sellers' = [sellers EXCEPT ![last'.id] =
                                    [@ EXCEPT !.status = "rejected",
                                              !.isApproved = FALSE,
                                              !.rejectionReason = last'.input]]
                  /\ last'.mail.kind = "rejection"
                  /\ Len(last'.mail.calls) >= 1
             ELSE /\ last'.code = 404
                  /\ UNCHANGED sellers]_vars

\* C20 witness: a seller was rejected with a reason and the rejection mail
\* was attempted.
SellerRejectedWithReason ==
    /\ last.op = "reject" /\ last.code = 200
    /\ sellers[last.sid].status = "rejected"
    /\ ~sellers[last.sid].isApproved
    /\ sellers[last.sid].rejectionReason = last.input
    /\ last.input \in Reasons
    /\ last.mail.kind = "rejection"

\* C21: a status change that the admin gate lets through answers 400 and
\* changes no seller unless newStatus is active, inactive or suspended; for
\* an existing seller, active sets status approved with isApproved true, and
\* inactive and suspended set status to that value with isApproved false,
\* changing nothing else.
StatusChangeAcceptsThree ==
    [][(last'.op = "status" /\ last' # last /\ last'.code \notin {401, 403})
          => LET newStatus == last'.input
             IN IF newStatus \notin {"active", "inactive", "suspended"}
                THEN /\ last'.code = 400
                     /\ UNCHANGED sellers
                ELSE IF last'.id \in Existing
                THEN /\ last'.code = 200
                     /\ sellers' = [sellers EXCEPT ![last'.id] =
                            [@ EXCEPT !.status = IF newStatus = "active"
                                                 THEN "approved" ELSE newStatus,
                                      !.isApproved = (newStatus = "active")]]
                ELSE /\ last'.code = 404
                     /\ UNCHANGED sellers]_vars

\* C21 witness: a seller that had been approved was suspended by a status
\* change.
ApprovedSellerSuspended ==
    /\ last.op = "status" /\ last.code = 200
    /\ last.input = "suspended"
    /\ sellers[last.sid].status = "suspended"
    /\ ~sellers[last.sid].isApproved
    /\ sellers[last.sid].approvedAt # NoDate

\* C22: a withdrawal request whose amount is positive and at most the
\* available balance the route computes from the seller it loaded is answered
\* 201, appends to the stored withdrawals one pending withdrawal with that
\* amount and the seller's bank details, leaving the earlier ones as they
\* were, and reports the available balance less the amount: 0 when the two
\* are equal.
WithdrawalAppended ==
    [][\A r \in Slots :
        (/\ Handling(r, "POST /withdrawals")
         /\ reqs'[r] = Idle)
          => LET sid == reqs[r].sid
                 amount == last'.amount
                 availableBalance == reqs[r].seller.totalEarnings
                                        - reduce(reqs[r].seller.withdrawals)
             IN (0 < amount /\ amount <= availableBalance)
                  => /\ last'.code = 201
                     /\ sellers' = [sellers EXCEPT ![sid].withdrawals =
                            Append(@, [amount |-> amount, status |-> "pending",
                                       bankDetails |-> reqs[r].seller.bankDetails])]
                     /\ last'.balance = availableBalance - amount
                     /\ (amount = availableBalance => last'.balance = 0)]_vars

\* C22 witness: a seller with an earlier withdrawal withdrew all that was
\* left, and the remaining balance reported is 0.
WithdrewWholeBalance ==
    /\ last.op = "POST /withdrawals" /\ last.code = 201
    /\ last.amount > 0
    /\ last.stored = last.amount
    /\ last.balance = 0
    /\ Len(sellers[last.sid].withdrawals) = 2
    /\ sellers[last.sid].withdrawals[2].amount = last.amount
    /\ sellers[last.sid].withdrawals[2].status = "pending"
    /\ sellers[last.sid].withdrawals[2].bankDetails = sellers[last.sid].bankDetails

----------------------------------------------------------------------------
(* Notification mails: the admin approves and rejects one seller while each
   of the calls a send may make to the provider has any outcome *)

\* The provider during one send: any outcome for each of the calls the retry
\* allows, delivery from then on.
MailRuns ==
    {[i \in 1..ProviderCalls |-> IF i <= MaxRetries THEN f[i] ELSE Delivered] :
        f \in [1..MaxRetries -> ProviderOutcomes]}

NextMail ==
    \/ Signup(Applicant, "111111", Steady(Delivered))
    \/ \E id \in SellerIds, run \in MailRuns : ApproveSeller("admin", id, run)
    \/ \E id \in SellerIds, run \in MailRuns :
            RejectSeller("admin", id, "Invalid documents", run)

SpecMail == Init /\ [][NextMail]_vars

\* The kinds of failure the retry policy names as transient: connection
\* timeout, connection refusal, DNS resolution failure and peer reset, told by
\* the error code or by the error message.
Transient(error) ==
    LET kinds == {"ETIMEDOUT", "ECONNREFUSED", "ENOTFOUND", "ECONNRESET"}
    IN \/ error.code \in kinds
       \/ error.message \cap (kinds \cup {"socket hang up"}) # {}

\* C23 as stated: a failed provider call that is not the last one allowed is
\* followed by another call exactly when its failure is of a transient kind.
RetriedIffTransient ==
    LET calls == last.mail.calls
    IN last.mail.kind \in {"approval", "rejection"}
        => \A i \in 1..Len(calls) :
              (~calls[i].ok /\ i < MaxRetries)
                  => ((i < Len(calls)) <=> Transient(calls[i]))

\* The delays 1..n of a backoff that starts at base and doubles.
Doubling(base, n) == [k \in 1..n |-> base * 2 ^ (k - 1)]

RECURSIVE SumOf(_)
SumOf(waits) == IF waits = <<>> THEN 0 ELSE Head(waits) + SumOf(Tail(waits))

\* What C24 says of one send: a delay is waited after every call but the
\* last, never after the third, the k-th delay is base * 2^(k-1), and the
\* delays add up to at most 3 * base.
BackedOff(sent, base) ==
    /\ Len(sent.waits) = Len(sent.calls) - 1
    /\ Len(sent.waits) <= 2
    /\ sent.waits = Doubling(base, Len(sent.waits))
    /\ SumOf(sent.waits) <= 3 * base

\* C24: an approval or rejection mail waits 2000 ms after its first failed
\* call and 4000 ms after its second and nothing after its third, and
\* retryWithBackoff with its default base waits 1000 ms and 2000 ms; either
\* way at most 3 * base in total.
BackoffDoubles ==
    /\ last.mail.kind \in {"approval", "rejection"}
          => /\ BackedOff(last.mail, RetryDelayMs)
             /\ last.mail.waits \in {<<>>, <<2000>>, <<2000, 4000>>}
    /\ \A run \in MailRuns :
          LET sent == retryWithBackoff(run, MaxRetries, DefaultDelayMs)
          IN /\ BackedOff(sent, DefaultDelayMs)
             /\ sent.waits \in {<<>>, <<1000>>, <<1000, 2000>>}
             /\ (Len(sent.calls) = 3 => sent.waits = <<1000, 2000>>)

\* C24 witness: a rejection mail was delivered by the third call, after a
\* refused connection and a failed DNS resolution, having waited 2000 ms and
\* 4000 ms.
RejectionSentAfterTwoDelays ==
    /\ last.op = "reject" /\ last.mail.kind = "rejection"
    /\ last.mail.calls = <<Refused, Unresolved, Delivered>>
    /\ last.mail.waits = <<2000, 4000>>

----------------------------------------------------------------------------
(* Overlapping signups: each request first looks for the email and the
   national ID and then, in a later step, inserts the seller *)

\* A collection without unique indexes admits every document.
uniqueIndex_absent(coll, doc) == TRUE

\* unique: true on email and on aadhaarNumber: the insert of doc is admitted
\* when no stored document has its email or its national ID.
uniqueIndex(coll, doc) ==
    \A i \in 1..Len(coll) :
        /\ coll[i].email # doc.email
        /\ coll[i].aadhaarNumber # doc.aadhaarNumber

\* POST /signup up to the second findOne: the request goes on to the insert
\* when it has all fields and found neither its email nor its national ID.
CheckSignup(r, body) ==
    /\ reqs[r] = Idle
    /\ UNCHANGED <<sellers, products, orders, now>>
    /\ IF ~body.complete
       THEN /\ last' = [Response("signup", 0, 400, "All fields are required")
                          EXCEPT !.body = body]
            /\ UNCHANGED reqs
       ELSE IF findByEmail(body.email) # 0
       THEN /\ last' = [Response("signup", 0, 400, "Email already registered")
                          EXCEPT !.body = body]
            /\ UNCHANGED reqs
       ELSE IF findByAadhaar(body.aadhaarNumber) # 0
       THEN /\ last' = [Response("signup", 0, 400, "Aadhaar number already registered")
                          EXCEPT !.body = body]
            /\ UNCHANGED reqs
       ELSE /\ reqs' = [reqs EXCEPT ![r] = [pc |-> "insert", route |-> "POST /signup",
                                            sid |-> 0, seller |-> body]]
            /\ UNCHANGED last

\* POST /signup from new Seller on: the first save throws a duplicate key
\* error when a unique index refuses the document, and the catch of the
\* handler answers 500.
InsertSeller(r, code, run) ==
    /\ reqs[r].pc = "insert"
    /\ Done(r)
    /\ UNCHANGED <<products, orders, now>>
    /\ LET body == reqs[r].seller
           doc == NewSeller(body.email, body.aadhaarNumber, body.password, body.bank)
       IN IF ~uniqueIndex(sellers, doc)
          THEN /\ last' = [Response("signup", 0, 500, "Error registering seller")
                             EXCEPT !.body = body]
               /\ UNCHANGED sellers
          ELSE /\ Len(sellers) < MaxSellers
               /\ LET id == Len(sellers) + 1
                      inserted == Append(sellers, doc)
                      otpData == generateOTPWithExpiry(code, OtpExpiryMinutes, now)
                      seller == [inserted[id] EXCEPT !.emailVerificationOTP = otpData]
                      sent == trySendOTP(sendOTPToEmail(run))
                  IN /\ sellers' = Save(inserted, id, seller, {"emailVerificationOTP"})
                     /\ last' = [Response("signup", id, 201,
                                          "Seller registered successfully")
                                   EXCEPT !.mail = sent.mail, !.otp = otpData,
                                          !.token = id, !.body = body, !.at = now,
                                          !.status = inserted[id].status]

NextSignup ==
    \/ \E r \in Slots, body \in SignupBodies : CheckSignup(r, body)
    \/ \E r \in Slots, run \in OtpRuns : InsertSeller(r, "111111", run)

SpecSignup == Init /\ [][NextSignup]_vars

\* C26: no two stored sellers have the same email or the same national ID,
\* however the checks and the inserts of signup requests interleave.
UniqueEmailAndId ==
    \A i, j \in Existing :
        i # j => /\ sellers[i].email # sellers[j].email
                 /\ sellers[i].aadhaarNumber # sellers[j].aadhaarNumber

\* C26 witness: a signup that had found neither its email nor its national
\* ID came to its insert after another signup had stored the same email, and
\* was refused.
OverlappingSignupRefused ==
    /\ last.op = "signup" /\ last.code = 500
    /\ last.mail = NoMail
    /\ last.body.complete
    /\ \E i \in Existing : sellers[i].email = last.body.email

\* C27 as stated: after a verify-email that failed on a wrong code,
\* the seller's stored emailVerificationOTP.attempts counts that request and
\* the failed requests that came straight before it for the same OTP.
AttemptsCountFailures ==
    (/\ last.op = "verify-email"
     /\ last.otp.present
     /\ last.input \notin {"", last.otp.code}
     /\ last.code \notin {200, 404})
        => /\ sellers[last.sid].emailVerificationOTP.present
           /\ sellers[last.sid].emailVerificationOTP.attempts >= last.fails + 1

\* C28 as stated: a seller whose status is approved has approvedAt set.
ApprovedHasApprovedAt ==
    \A i \in Existing :
        sellers[i].status = "approved" => sellers[i].approvedAt # NoDate

\* C29 as stated: a send-otp whose mail could not be sent is answered 500,
\* and the OTP stored for the seller is the one it generated.
FailedSendKeepsNewOtp ==
    (last.op = "send-otp" /\ last.mail.kind = "otp" /\ ~last.mail.ok)
        => /\ last.code = 500
           /\ last.otp.present
           /\ sellers[last.sid].emailVerificationOTP = last.otp

----------------------------------------------------------------------------
(* Products: two sellers sign up and are approved, and their requests to
   create, update and delete products arrive one at a time *)

ProductRoutes ==
    {"POST /products", "PUT /products/:productId", "DELETE /products/:productId"}

NextProducts ==
    \/ \E body \in {Applicant, Competitor} :
            Signup(body, "111111", Steady(Delivered))
    \/ \E id \in SellerIds : ApproveSeller("admin", id, Steady(Delivered))
    \/ \E route \in ProductRoutes, token \in SellerIds : Gate(1, route, token)
    \/ \E name \in {"", "lamp"} : CreateProduct(1, name)
    \/ \E productId \in ProductIds, name \in {"", "desk"} :
            UpdateProduct(1, productId, name)
    \/ \E productId \in ProductIds : DeleteProduct(1, productId)

SpecProducts == Init /\ [][NextProducts]_vars

\* The products whose sellerId is seller id.
ProductsOf(id) == {p \in Stored : products[p].sellerId = id}

\* C30: totalProducts of every seller is never negative and equals the
\* number of products whose sellerId is that seller, when the product
\* requests do not interleave; and an update or a delete that addresses a
\* product of another seller is answered 403 and changes no product and no
\* seller.
TotalProductsCounts ==
    /\ [](\A id \in Existing :
            /\ sellers[id].totalProducts >= 0
            /\ sellers[id].totalProducts = Cardinality(ProductsOf(id)))
    /\ [][\A route \in {"PUT /products/:productId", "DELETE /products/:productId"} :
            (/\ Handling(1, route)
             /\ reqs'[1] = Idle
             /\ last'.id \in Stored
             /\ products[last'.id].sellerId # reqs[1].sid)
                => /\ last'.code = 403
                   /\ UNCHANGED <<products, sellers>>]_vars

\* C30 witness: a seller asked to delete the one product of the other
\* seller and was refused.
ForeignDeleteRefused ==
    /\ last.op = "DELETE /products/:productId" /\ last.code = 403
    /\ last.id \in Stored
    /\ products[last.id].sellerId # last.sid
    /\ sellers[products[last.id].sellerId].totalProducts = 1
    /\ sellers[last.sid].totalProducts = 0

====
